---- MODULE Spec2Model ----
(***************************************************************************)
(* Batch orchestration of jwyGithub/image-to-svg                           *)
(* (src/src/lib/conversion.ts, ConversionService).                         *)
(*                                                                         *)
(* JavaScript runs one handler at a time: a step of the model is the code  *)
(* that runs between two suspension points (await) of convertBatchTask,    *)
(* or one synchronous call of createBatchTask / cancelBatchTask.  The      *)
(* progress callbacks are invoked synchronously inside a step; every       *)
(* invocation is recorded, with the batch as the callback sees it, in      *)
(* `emitted` (the invocations made by the most recent step).               *)
(***************************************************************************)
EXTENDS Integers, Sequences, FiniteSets, TLC

(***************************************************************************)
(* Bounds of the model.                                                    *)
(***************************************************************************)
MaxTasks == 3        \* longest file list handed to createBatchTask
MaxCores == 2        \* largest navigator.hardwareConcurrency explored
MaxCancels == 2      \* number of cancelBatchTask calls explored
MaxSaves == 2        \* number of saveBatchToHistory calls explored
MaxClock == 2        \* largest value of Date.now() explored
MaxOpening == 2      \* most calls waiting for indexedDB.open at a time
MaxConversions == 2  \* conversions the user starts in the page

(***************************************************************************)
(* Values of the program.                                                  *)
(***************************************************************************)
PENDING == "pending"
PROCESSING == "processing"
COMPLETED == "completed"
FAILED == "failed"

ConversionStatus == {PENDING, PROCESSING, COMPLETED, FAILED}

\* an optional field that has not been assigned
undefined == "undefined"

\* the value of an assigned Date field (new Date())
Date == "date"

\* Math.round(0 / 0 * 100): not a number, equal to no integer of 0..100
NaN == -1

\* the document convertFileToSvg resolves with
SvgDocument == "<svg>"

\* error.message of the ConversionError convertFileToSvg rejects with
\* (the source's text is Chinese: "cannot load the image")
EncodeErrorMessage == "image load error"

\* the error cancelBatchTask records on a task
\* (the source's text is Chinese: "task cancelled")
CancelMessage == "task cancelled"

\* file.type values: the supported list of validateImageFile, and one other
supportedTypes ==
    {"image/jpeg", "image/jpg", "image/png", "image/gif", "image/webp",
     "image/bmp", "image/svg+xml"}

FileTypes == {"image/png", "text/plain"}

\* file.size values in MiB: below and above the 10 MiB ceiling of the upload form
FileSizes == {1, 11}

Files == [type : FileTypes, size : FileSizes]

\* validateImageFile returning true for every file
validateImageFile_AcceptAll(file) == TRUE

validateImageFile(file) == file.type \in supportedTypes

\* maxSize of validateFiles in the upload form, 10 * 1024 * 1024 bytes, in MiB
maxSize == 10

\* navigator.hardwareConcurrency || 4 ; 0 stands for an absent value
DefaultWorkers == 4

maxWorkersOf(hardwareConcurrency) ==
    IF hardwareConcurrency = 0 THEN DefaultWorkers ELSE hardwareConcurrency

Min(a, b) == IF a < b THEN a ELSE b

\* Math.round((c / n) * 100): rounds half up; NaN when n = 0 (then c = 0)
RoundPercent(c, n) ==
    IF n = 0 THEN NaN ELSE (200 * c + n) \div (2 * n)

VARIABLES
    maxWorkers,        \* ConversionService.maxWorkers
    selectedFiles,     \* the file list handed to createBatchTask
    pc,                \* where the caller and convertBatchTask stand
    batch,             \* the BatchConversionTask object
    concurrencyLimit,  \* local of convertBatchTask
    loopIndex,         \* local i of convertBatchTask's for loop
    inflight,          \* tasks whose convertFileToSvg promise is unsettled
    encodeCalls,       \* number of convertFileToSvg calls made per task
    outcome,           \* how each task's convertFileToSvg call settled
    cancelCalls,       \* number of cancelBatchTask calls made
    atCancel,          \* each task's status when cancelBatchTask was last
                       \* called with convertBatchTask in flight
    stats,             \* <<what getBatchStatistics returned>> if the most
                       \* recent step was a call of it, <<>> otherwise
    emitted            \* callback invocations of the most recent step

\* StorageService (src/src/lib/storage.ts) and the IndexedDB database
VARIABLES
    now,               \* Date.now()
    canOpen,           \* whether indexedDB.open succeeds in this process
    db,                \* StorageService.db: "null" or "open"
    opening,           \* calls suspended in `await this.init()`, oldest first
    disk,              \* the committed StorageItems, in the order of their put
    uncommitted,       \* the write whose request succeeded and whose
                       \* transaction has not completed yet, if any
    result,            \* how the storage call that settled in the last
                       \* storage step settled, if one did
    saveCalls,         \* number of saveBatchToHistory calls made
    pristine           \* no delete, clear or restart has happened yet

orchVars == <<maxWorkers, selectedFiles, pc, batch, concurrencyLimit, loopIndex,
              inflight, encodeCalls, outcome, cancelCalls, atCancel, stats, emitted>>

storeVars == <<now, canOpen, db, opening, disk, uncommitted, result,
               saveCalls, pristine>>

\* DownloadService.downloadBatchSvg (src/src/lib/storage.ts from line 238)
VARIABLES
    dlState,           \* the call: "idle", "timers", "resolved" or "rejected"
    dlBatch,           \* the batch as it was when downloadBatchSvg was called
    dlCompleted,       \* completedTasks: the task numbers the call filtered
    dlAttempts         \* the downloadTaskSvg calls made so far, in order

dlVars == <<dlState, dlBatch, dlCompleted, dlAttempts>>

\* Home (src/src/app/page.tsx): the component state and its handlers
VARIABLES
    pageFiles,         \* selectedFiles of the page
    currentBatch,      \* which batch object currentBatch refers to: 0 for
                       \* null, n for the batch of the page's n-th conversion
    isConverting,      \* isConverting of the page
    conversions,       \* number of handleStartConversion calls that got past
                       \* the test of the file list
    handler,           \* the handler that has run up to its call of the
                       \* conversion service, the call being the next step
    pagePc,            \* where the first handleStartConversion call stands
    later,             \* where each later conversion stands: "none",
                       \* "processing" (convertBatchTask in flight, the
                       \* batch processing), "settled" (in flight, the
                       \* batch no longer processing) or "returned"
    saved              \* the arguments of the page's saveBatchToHistory
                       \* calls for the first conversion, in order

pageVars == <<pageFiles, currentBatch, isConverting, conversions, handler,
              pagePc, later, saved>>

vars == <<orchVars, storeVars, dlVars, pageVars>>

(***************************************************************************)
(* createTask / createBatchTask                                            *)
(***************************************************************************)
createTask(file) ==
    [file |-> file,
     fileSize |-> file.size,
     status |-> PENDING,
     progress |-> 0,
     svgContent |-> undefined,
     error |-> undefined,
     completedAt |-> undefined]

createBatchTask(files) ==
    [tasks |-> [i \in 1..Len(files) |-> createTask(files[i])],
     totalProgress |-> 0,
     status |-> PENDING,
     completedAt |-> undefined]

\* the object the variable holds before createBatchTask has returned one
NoBatch == createBatchTask(<<>>)

IsTerminal(status) == status = COMPLETED \/ status = FAILED

TaskIds(b) == 1..Len(b.tasks)

(***************************************************************************)
(* Callbacks.  An invocation is recorded with the batch as it is when the  *)
(* callback is called; task = 0 for onBatchProgress.                       *)
(***************************************************************************)
Emit(m, cb, i) ==
    [m EXCEPT !.emitted = Append(@, [cb |-> cb, task |-> i, batch |-> m.batch])]

\* updateBatchProgress with `every` written for `some` in hasFailedTasks
updateBatchProgress_EveryFailed(m) ==
    LET b == m.batch
        completedTasks == Cardinality({i \in TaskIds(b) : IsTerminal(b.tasks[i].status)})
        b1 == [b EXCEPT !.totalProgress = RoundPercent(completedTasks, Len(b.tasks))]
        hasFailedTasks == \A i \in TaskIds(b) : b.tasks[i].status = FAILED
        b2 == IF completedTasks = Len(b.tasks)
              THEN [b1 EXCEPT !.status = IF hasFailedTasks THEN FAILED ELSE COMPLETED,
                              !.completedAt = Date]
              ELSE b1
    IN Emit([m EXCEPT !.batch = b2], "onBatchProgress", 0)

\* updateBatchProgress, the closure of convertBatchTask
updateBatchProgress(m) ==
    LET b == m.batch
        completedTasks == Cardinality({i \in TaskIds(b) : IsTerminal(b.tasks[i].status)})
        b1 == [b EXCEPT !.totalProgress = RoundPercent(completedTasks, Len(b.tasks))]
        hasFailedTasks == \E i \in TaskIds(b) : b.tasks[i].status = FAILED
        b2 == IF completedTasks = Len(b.tasks)
              THEN [b1 EXCEPT !.status = IF hasFailedTasks THEN FAILED ELSE COMPLETED,
                              !.completedAt = Date]
              ELSE b1
    IN Emit([m EXCEPT !.batch = b2], "onBatchProgress", 0)

\* the onProgress argument without its updateBatchProgress call
onProgress_NoAggregate(m, i) == Emit(m, "onTaskProgress", i)

\* the onProgress argument processTask hands to convertSingleTask
onProgress(m, i) == updateBatchProgress(Emit(m, "onTaskProgress", i))

\* updateProgress, the closure of convertSingleTask
updateProgress(m, i, progress) ==
    onProgress([m EXCEPT !.batch.tasks[i].progress = Min(progress, 100)], i)

\* convertSingleTask up to its await
convertSingleTaskBegin(m, i) ==
    LET m1 == onProgress([m EXCEPT !.batch.tasks[i].status = PROCESSING,
                                   !.batch.tasks[i].progress = 0], i)
    IN updateProgress(m1, i, 20)

\* convertSingleTask after its await with updateProgress(10) for
\* updateProgress(80)
convertSingleTaskFulfilled_Ten(m, i) ==
    LET m1 == updateProgress(m, i, 10)
        m2 == [m1 EXCEPT !.batch.tasks[i].svgContent = SvgDocument,
                         !.batch.tasks[i].status = COMPLETED,
                         !.batch.tasks[i].progress = 100,
                         !.batch.tasks[i].completedAt = Date]
        m3 == updateProgress(m2, i, 100)
    IN onProgress(m3, i)

\* convertSingleTask after its await, convertFileToSvg fulfilled
convertSingleTaskFulfilled(m, i) ==
    LET m1 == updateProgress(m, i, 80)
        m2 == [m1 EXCEPT !.batch.tasks[i].svgContent = SvgDocument,
                         !.batch.tasks[i].status = COMPLETED,
                         !.batch.tasks[i].progress = 100,
                         !.batch.tasks[i].completedAt = Date]
        m3 == updateProgress(m2, i, 100)
    IN onProgress(m3, i)

\* the catch block of convertSingleTask without its onProgress call
convertSingleTaskRejected_NoCallback(m, i) ==
    [m EXCEPT !.batch.tasks[i].status = FAILED,
              !.batch.tasks[i].error = EncodeErrorMessage]

\* the catch block of convertSingleTask without its status assignment
convertSingleTaskRejected_NoStatus(m, i) ==
    onProgress([m EXCEPT !.batch.tasks[i].error = EncodeErrorMessage], i)

\* convertSingleTask's catch block, convertFileToSvg rejected
convertSingleTaskRejected(m, i) ==
    onProgress([m EXCEPT !.batch.tasks[i].status = FAILED,
                         !.batch.tasks[i].error = EncodeErrorMessage], i)

\* processTask without its try/catch
processTask_NoCatch(settled) == settled

\* processTask: how its promise settles, given how convertSingleTask settled
processTask(settled) ==
    IF settled = "rejected" THEN "fulfilled" ELSE settled

\* batch.map(processTask) for the slice of tasks first..last, in order
RECURSIVE dispatchGroup(_, _, _)
dispatchGroup(m, first, last) ==
    IF first > last THEN m
    ELSE dispatchGroup(convertSingleTaskBegin(m, first), first + 1, last)

\* slice(i) written for slice(i, i + concurrencyLimit)
sliceEnd_NoLimit(i, limit, n) == n

\* slice(i, i + concurrencyLimit - 1) written for slice(i, i + concurrencyLimit)
sliceEnd_OneShort(i, limit, n) == Min(i + limit - 1, n)

\* the end of batchTask.tasks.slice(i, i + concurrencyLimit) in a list of n
sliceEnd(i, limit, n) == Min(i + limit, n)

\* the tasks of that slice, as task numbers (task t is tasks[t - 1])
GroupOf(b, i, limit) == i + 1 .. sliceEnd(i, limit, Len(b.tasks))

\* cancelBatchTask stopping at the first task it cancels
cancelBatchTask_FirstOnly(b) ==
    LET open == {i \in TaskIds(b) : b.tasks[i].status = PENDING \/ b.tasks[i].status = PROCESSING}
    IN [b EXCEPT !.tasks = [i \in TaskIds(b) |->
                               IF i \in open /\ \A j \in open : i <= j
                               THEN [b.tasks[i] EXCEPT !.status = FAILED,
                                                       !.error = CancelMessage]
                               ELSE b.tasks[i]],
                 !.status = FAILED]

cancelBatchTask(b) ==
    [b EXCEPT !.tasks = [i \in TaskIds(b) |->
                            IF b.tasks[i].status = PENDING \/ b.tasks[i].status = PROCESSING
                            THEN [b.tasks[i] EXCEPT !.status = FAILED,
                                                    !.error = CancelMessage]
                            ELSE b.tasks[i]],
              !.status = FAILED]

(***************************************************************************)
(* The history store before any call: the database is empty and closed.    *)
(***************************************************************************)
NoResult ==
    [op |-> "none", status |-> "none", arg |-> <<>>, savedId |-> <<>>,
     records |-> <<>>, count |-> 0, estimatedSize |-> 0, error |-> "",
     shared |-> FALSE, mutated |-> FALSE]

InitStore ==
    /\ now = 0
    /\ db = "null"
    /\ opening = <<>>
    /\ disk = <<>>
    /\ uncommitted = <<>>
    /\ result = NoResult
    /\ saveCalls = 0
    /\ pristine = TRUE

\* downloadBatchSvg has not been called
InitDownload ==
    /\ dlState = "idle"
    /\ dlBatch = NoBatch
    /\ dlCompleted = <<>>
    /\ dlAttempts = <<>>

\* the page as mounted: nothing selected, no batch, no conversion started
InitPage ==
    /\ pageFiles = <<>>
    /\ currentBatch = 0
    /\ isConverting = FALSE
    /\ conversions = 0
    /\ handler = "none"
    /\ pagePc = "idle"
    /\ later = [n \in 2..MaxConversions |-> "none"]
    /\ saved = <<>>

\* the two callbacks handleStartConversion hands to convertBatchTask, applied
\* to the invocations of one step in their order: the task callback keeps a
\* copy of the batch displayed (or null), the batch callback displays the
\* batch of the call, whatever is displayed
RECURSIVE setCurrentBatch(_, _, _)
setCurrentBatch(prevBatch, n, calls) ==
    IF calls = <<>> THEN prevBatch
    ELSE setCurrentBatch(IF Head(calls).cb = "onBatchProgress" THEN n ELSE prevBatch,
                         n, Tail(calls))

\* what a step of the conversion service does to the page: the callbacks it
\* invokes are the page's if the page made the convertBatchTask call, and
\* the handler that made the call has reached its await or its end
PageCallbacks ==
    /\ currentBatch' = IF conversions > 0
                       THEN setCurrentBatch(currentBatch, 1, emitted')
                       ELSE currentBatch
    /\ handler' = "none"
    /\ UNCHANGED <<pageFiles, isConverting, conversions, pagePc, later, saved>>

(***************************************************************************)
(* Initial state: the service is constructed, nothing has been created.    *)
(***************************************************************************)
Init ==
    /\ \E hc \in 0..MaxCores : maxWorkers = maxWorkersOf(hc)
    /\ pc = "init"
    /\ batch = NoBatch
    /\ concurrencyLimit = 0
    /\ loopIndex = 0
    /\ inflight = {}
    /\ encodeCalls = [i \in 1..0 |-> 0]
    /\ outcome = [i \in 1..0 |-> "none"]
    /\ cancelCalls = 0
    /\ atCancel = [i \in 1..0 |-> "none"]
    /\ selectedFiles = <<>>
    /\ stats = <<>>
    /\ emitted = <<>>
    /\ canOpen = TRUE
    /\ InitStore
    /\ InitDownload
    /\ InitPage

\* an ordinary input: a supported kind, below the ceiling
PlainFile == [type |-> "image/png", size |-> 1]

\* the file lists explored: up to MaxTasks files, of which at most one, at
\* any position, is not the ordinary one (the orchestration never reads the
\* file, so further combinations only repeat the same runs)
FileLists ==
    {files \in UNION {[1..n -> Files] : n \in 0..MaxTasks} :
        Cardinality({i \in 1..Len(files) : files[i] # PlainFile}) <= 1}

\* createBatchTask(files): throws if createTask throws for some file
CreateBatch ==
    /\ pc = "init"
    /\ \E files \in FileLists :
         /\ selectedFiles' = files
         /\ IF \A i \in 1..Len(files) : validateImageFile(files[i])
            THEN /\ batch' = createBatchTask(files)
                 /\ pc' = "created"
                 /\ encodeCalls' = [i \in 1..Len(files) |-> 0]
                 /\ outcome' = [i \in 1..Len(files) |-> "none"]
                 /\ atCancel' = [i \in 1..Len(files) |-> "none"]
            ELSE /\ pc' = "rejected"
                 /\ UNCHANGED <<batch, encodeCalls, outcome, atCancel>>
    /\ emitted' = <<>>
    /\ stats' = <<>>
    /\ UNCHANGED <<maxWorkers, concurrencyLimit, loopIndex, inflight, cancelCalls>>
    /\ UNCHANGED <<storeVars, dlVars>>
    /\ PageCallbacks

\* the for loop of convertBatchTask from index i on, up to the next await
\* or the return
LoopFrom(m, i, limit) ==
    IF i < Len(m.batch.tasks)
    THEN LET last == sliceEnd(i, limit, Len(m.batch.tasks))
             m1 == dispatchGroup(m, i + 1, last)
         IN /\ batch' = m1.batch
            /\ emitted' = m1.emitted
            /\ inflight' = inflight \cup (i + 1 .. last)
            /\ encodeCalls' = [t \in DOMAIN encodeCalls |->
                                  IF t \in i + 1 .. last THEN encodeCalls[t] + 1
                                  ELSE encodeCalls[t]]
            /\ pc' = "awaiting"
    ELSE LET m1 == updateBatchProgress(m)
         IN /\ batch' = m1.batch
            /\ emitted' = m1.emitted
            /\ pc' = "returned"
            /\ UNCHANGED <<inflight, encodeCalls>>

\* convertBatchTask called: runs to the first await Promise.all
ConvertBatch ==
    /\ pc = "created"
    /\ LET limit == Min(maxWorkers, Len(batch.tasks))
           m == [batch |-> [batch EXCEPT !.status = PROCESSING], emitted |-> <<>>]
       IN /\ concurrencyLimit' = limit
          /\ loopIndex' = 0
          /\ LoopFrom(m, 0, limit)
    /\ stats' = <<>>
    /\ UNCHANGED <<maxWorkers, selectedFiles, outcome, cancelCalls, atCancel>>
    /\ UNCHANGED <<storeVars, dlVars>>
    /\ PageCallbacks

\* the catch block of convertBatchTask
outerCatch(m) ==
    Emit([m EXCEPT !.batch.status = FAILED], "onBatchProgress", 0)

\* convertFileToSvg of task i settles; convertSingleTask and processTask resume
Settle(i, how, m1) ==
    /\ i \in inflight
    /\ inflight' = inflight \ {i}
    /\ outcome' = [outcome EXCEPT ![i] = how]
    /\ IF processTask(how) = "rejected" /\ pc = "awaiting"
       THEN LET m2 == outerCatch(m1)
            IN /\ batch' = m2.batch
               /\ emitted' = m2.emitted
               /\ pc' = "thrown"
       ELSE /\ batch' = m1.batch
            /\ emitted' = m1.emitted
            /\ pc' = pc
    /\ stats' = <<>>
    /\ UNCHANGED <<maxWorkers, selectedFiles, concurrencyLimit, loopIndex,
                   encodeCalls, cancelCalls, atCancel>>
    /\ UNCHANGED <<storeVars, dlVars>>
    /\ PageCallbacks

EncoderFulfils ==
    \E i \in inflight :
        Settle(i, "fulfilled",
               convertSingleTaskFulfilled([batch |-> batch, emitted |-> <<>>], i))

EncoderRejects ==
    \E i \in inflight :
        Settle(i, "rejected",
               convertSingleTaskRejected([batch |-> batch, emitted |-> <<>>], i))

\* the loop going on to the next group without awaiting Promise.all
ResumeLoop_NoAwait ==
    /\ pc = "awaiting"
    /\ loopIndex' = loopIndex + concurrencyLimit
    /\ LoopFrom([batch |-> batch, emitted |-> <<>>],
                loopIndex + concurrencyLimit, concurrencyLimit)
    /\ stats' = <<>>
    /\ UNCHANGED <<maxWorkers, selectedFiles, concurrencyLimit, outcome,
                   cancelCalls, atCancel>>
    /\ UNCHANGED <<storeVars, dlVars>>
    /\ PageCallbacks

\* await Promise.all(batchPromises) resumes: next group, or the final update
ResumeLoop ==
    /\ pc = "awaiting"
    /\ GroupOf(batch, loopIndex, concurrencyLimit) \cap inflight = {}
    /\ loopIndex' = loopIndex + concurrencyLimit
    /\ LoopFrom([batch |-> batch, emitted |-> <<>>],
                loopIndex + concurrencyLimit, concurrencyLimit)
    /\ stats' = <<>>
    /\ UNCHANGED <<maxWorkers, selectedFiles, concurrencyLimit, outcome,
                   cancelCalls, atCancel>>
    /\ UNCHANGED <<storeVars, dlVars>>
    /\ PageCallbacks

\* cancelBatchTask(batch), callable whenever the caller holds the batch
Cancel ==
    /\ pc \in {"created", "awaiting", "returned"}
    /\ cancelCalls < MaxCancels
    /\ batch' = cancelBatchTask(batch)
    /\ cancelCalls' = cancelCalls + 1
    /\ atCancel' = IF pc = "awaiting"
                   THEN [i \in TaskIds(batch) |-> batch.tasks[i].status]
                   ELSE atCancel
    /\ emitted' = <<>>
    /\ stats' = <<>>
    /\ UNCHANGED <<maxWorkers, selectedFiles, pc, concurrencyLimit, loopIndex,
                   inflight, encodeCalls, outcome>>
    /\ UNCHANGED <<storeVars, dlVars>>
    /\ PageCallbacks

\* Math.round((c / n) * 100) for n > 0
RoundRatio(c, n) == (200 * c + n) \div (2 * n)

\* getBatchStatistics with Math.floor written for Math.round
getBatchStatistics_Floor(b) ==
    LET count(status) == Cardinality({i \in TaskIds(b) : b.tasks[i].status = status})
        total == Len(b.tasks)
        completed == count(COMPLETED)
    IN [total |-> total,
        completed |-> completed,
        failed |-> count(FAILED),
        processing |-> count(PROCESSING),
        pending |-> count(PENDING),
        successRate |-> IF total > 0 THEN (100 * completed) \div total ELSE 0]

getBatchStatistics(b) ==
    LET count(status) == Cardinality({i \in TaskIds(b) : b.tasks[i].status = status})
        total == Len(b.tasks)
        completed == count(COMPLETED)
    IN [total |-> total,
        completed |-> completed,
        failed |-> count(FAILED),
        processing |-> count(PROCESSING),
        pending |-> count(PENDING),
        successRate |-> IF total > 0 THEN RoundRatio(completed, total) ELSE 0]

\* getBatchStatistics(batch), callable whenever the caller holds the batch
Statistics ==
    /\ pc \in {"created", "awaiting", "returned"}
    /\ stats' = <<getBatchStatistics(batch)>>
    /\ emitted' = <<>>
    /\ UNCHANGED <<maxWorkers, selectedFiles, pc, batch, concurrencyLimit,
                   loopIndex, inflight, encodeCalls, outcome, cancelCalls,
                   atCancel>>
    /\ UNCHANGED <<storeVars, dlVars>>
    /\ PageCallbacks

Next ==
    \/ CreateBatch
    \/ ConvertBatch
    \/ EncoderFulfils
    \/ EncoderRejects
    \/ ResumeLoop
    \/ Cancel
    \/ Statistics

Spec == Init /\ [][Next]_vars

(***************************************************************************)
(* The history store: ConversionService.saveBatchToHistory and             *)
(* StorageService over one IndexedDB object store (keyPath 'id', a         *)
(* non-unique index on 'timestamp').                                       *)
(*                                                                         *)
(* A call made while this.db is null suspends in `await this.init()` and   *)
(* resumes when its own open request settles; open requests settle in the  *)
(* order they were made.  A call made while this.db is set runs to its     *)
(* request without suspending.  Transactions on the one object store run   *)
(* one after the other, so a request is served only once the write before  *)
(* it has committed.  A write request succeeds (and the call's promise     *)
(* resolves) before its transaction completes.                             *)
(***************************************************************************)
STORAGE_ERROR == "storage_error"

\* the suffixes Math.random().toString(36).substr(2, 9) is drawn from
RandomSuffixes == {1, 2}

\* `${Date.now()}-${suffix}`
generateId(t, r) == <<t, r>>

\* an id no call of generateId returns
AbsentId == <<0, 0>>

\* order of two ids as IndexedDB keys (strings compared left to right)
IdLess(a, b) == a[1] < b[1] \/ (a[1] = b[1] /\ a[2] < b[2])

\* order of two items in the index 'timestamp': index key, then primary key
IndexLess(a, b) ==
    a.timestamp < b.timestamp \/ (a.timestamp = b.timestamp /\ IdLess(a.id, b.id))

\* the items of a set, greatest index entry first (openCursor(null, 'prev'))
RECURSIVE openCursorPrev(_)
openCursorPrev(items) ==
    IF items = {} THEN <<>>
    ELSE LET top == CHOOSE x \in items : \A y \in items \ {x} : IndexLess(y, x)
         IN <<top>> \o openCursorPrev(items \ {top})

Items(d) == {d[i] : i \in 1..Len(d)}

\* objectStore.put: insert, or replace the item that has the same key
put(d, item) == Append(SelectSeq(d, LAMBDA x : x.id # item.id), item)

\* objectStore.delete that keeps the item of the key and removes the others
delete_Others(d, id) == SelectSeq(d, LAMBDA x : x.id = id)

\* objectStore.delete
delete(d, id) == SelectSeq(d, LAMBDA x : x.id # id)

\* the effect of a write request on the object store
applyWrite(d, w) ==
    IF w.kind = "put" THEN put(d, w.item[1])
    ELSE IF w.kind = "delete" THEN delete(d, w.id[1])
    ELSE <<>>

\* the object store as the next transaction will find it
Contents == IF uncommitted = <<>> THEN disk ELSE applyWrite(disk, uncommitted[1])

\* the StorageItem saveHistory builds; put serialises it, and with it the
\* batch the history refers to, as the batch is when put is called.
\* atCall is a history field, not part of the item: the batch as it was
\* when saveBatchToHistory was called.
storageItem(h) ==
    [id |-> h.id,
     data |-> [id |-> h.id, batch |-> batch, savedAt |-> h.savedAt],
     timestamp |-> now,
     atCall |-> h.atCall]

\* a request that hands back the stored object itself
deserialize_Live(item) == [data |-> item.data, shared |-> TRUE]

\* the value a request hands back is deserialised from the store: it shares
\* nothing with the stored item
deserialize(item) == [data |-> item.data, shared |-> FALSE]

Resolved(op, arg) ==
    [NoResult EXCEPT !.op = op, !.status = "resolved", !.arg = arg]

\* a rejection with a plain Error, whatever type is given
Rejected_Untyped(op, arg, type) ==
    [NoResult EXCEPT !.op = op, !.status = "rejected", !.arg = arg, !.error = "error"]

Rejected(op, arg, type) ==
    [NoResult EXCEPT !.op = op, !.status = "rejected", !.arg = arg, !.error = type]

\* getStorageInfo's estimate without the factor 1024
estimatedSize_Bytes(count) == count * 50

\* getStorageInfo: count * 50 * 1024
estimatedSize(count) == count * 50 * 1024

\* the part of a call that follows `if (!this.db) await this.init()`
Transact(req) ==
    /\ uncommitted = <<>>
    /\ IF req.op = "save"
       THEN /\ uncommitted' = <<[kind |-> "put", item |-> <<storageItem(req.history[1])>>,
                                 id |-> <<>>]>>
            /\ result' = [Resolved("save", <<req.history[1].id>>) EXCEPT
                             !.savedId = <<req.history[1].id>>]
            /\ UNCHANGED pristine
       ELSE IF req.op = "list"
       THEN /\ LET values == [i \in 1..Len(disk) |->
                                 deserialize(openCursorPrev(Items(disk))[i])]
               IN result' = [Resolved("list", <<>>) EXCEPT
                                !.records = [i \in 1..Len(disk) |-> values[i].data],
                                !.shared = \E i \in 1..Len(disk) : values[i].shared]
            /\ UNCHANGED <<uncommitted, pristine>>
       ELSE IF req.op = "get"
       THEN /\ LET found == SelectSeq(disk, LAMBDA x : x.id = req.id[1])
                   values == [i \in 1..Len(found) |-> deserialize(found[i])]
               IN result' = [Resolved("get", req.id) EXCEPT
                                !.records = [i \in 1..Len(found) |-> values[i].data],
                                !.shared = \E i \in 1..Len(found) : values[i].shared]
            /\ UNCHANGED <<uncommitted, pristine>>
       ELSE IF req.op = "delete"
       THEN /\ uncommitted' = <<[kind |-> "delete", item |-> <<>>, id |-> req.id]>>
            /\ result' = Resolved("delete", req.id)
            /\ pristine' = FALSE
       ELSE IF req.op = "clear"
       THEN /\ uncommitted' = <<[kind |-> "clear", item |-> <<>>, id |-> <<>>]>>
            /\ result' = Resolved("clear", <<>>)
            /\ pristine' = FALSE
       ELSE /\ result' = [Resolved("info", <<>>) EXCEPT
                             !.count = Len(disk),
                             !.estimatedSize = estimatedSize(Len(disk))]
            /\ UNCHANGED <<uncommitted, pristine>>
    /\ UNCHANGED disk

\* a StorageService method from its call to its first suspension
Call(req) ==
    IF db = "null"
    THEN /\ Len(opening) < MaxOpening
         /\ opening' = Append(opening, req)
         /\ result' = NoResult
         /\ UNCHANGED <<db, disk, uncommitted, pristine>>
    ELSE /\ Transact(req)
         /\ UNCHANGED <<db, opening>>

Request(op, history, id) == [op |-> op, history |-> history, id |-> id]

\* the ids of the stored records, and one that was never stored
KnownIds == {Contents[i].id : i \in 1..Len(Contents)} \cup {AbsentId}

SaveBatchToHistory ==
    /\ pc \in {"created", "awaiting", "returned"}
    /\ saveCalls < MaxSaves
    /\ \E r \in RandomSuffixes :
          LET history == [id |-> generateId(now, r), savedAt |-> now,
                          atCall |-> batch]
          IN Call(Request("save", <<history>>, <<>>))
    /\ saveCalls' = saveCalls + 1
    /\ UNCHANGED <<now, canOpen>>
    /\ UNCHANGED <<orchVars, dlVars, pageVars>>

GetAllHistory ==
    /\ Call(Request("list", <<>>, <<>>))
    /\ UNCHANGED <<now, canOpen, saveCalls>>
    /\ UNCHANGED <<orchVars, dlVars, pageVars>>

GetHistoryById ==
    /\ \E id \in KnownIds : Call(Request("get", <<>>, <<id>>))
    /\ UNCHANGED <<now, canOpen, saveCalls>>
    /\ UNCHANGED <<orchVars, dlVars, pageVars>>

DeleteHistory ==
    /\ \E id \in KnownIds : Call(Request("delete", <<>>, <<id>>))
    /\ UNCHANGED <<now, canOpen, saveCalls>>
    /\ UNCHANGED <<orchVars, dlVars, pageVars>>

ClearAllHistory ==
    /\ Call(Request("clear", <<>>, <<>>))
    /\ UNCHANGED <<now, canOpen, saveCalls>>
    /\ UNCHANGED <<orchVars, dlVars, pageVars>>

GetStorageInfo ==
    /\ Call(Request("info", <<>>, <<>>))
    /\ UNCHANGED <<now, canOpen, saveCalls>>
    /\ UNCHANGED <<orchVars, dlVars, pageVars>>

\* request.onsuccess of the oldest open request: this.db is set and the call
\* that was waiting goes on
OpenSucceeds ==
    /\ canOpen
    /\ opening # <<>>
    /\ db' = "open"
    /\ Transact(Head(opening))
    /\ opening' = Tail(opening)
    /\ UNCHANGED <<now, canOpen, saveCalls>>
    /\ UNCHANGED <<orchVars, dlVars, pageVars>>

\* request.onerror of the oldest open request: init rejects, and so does the
\* call that was waiting
OpenFails ==
    /\ ~canOpen
    /\ opening # <<>>
    /\ result' = Rejected(Head(opening).op, Head(opening).id, STORAGE_ERROR)
    /\ opening' = Tail(opening)
    /\ UNCHANGED <<now, canOpen, db, disk, uncommitted, saveCalls,
                   pristine>>
    /\ UNCHANGED <<orchVars, dlVars, pageVars>>

\* the transaction of the last write completes
Commit ==
    /\ uncommitted # <<>>
    /\ disk' = applyWrite(disk, uncommitted[1])
    /\ uncommitted' = <<>>
    /\ result' = NoResult
    /\ UNCHANGED <<now, canOpen, db, opening, saveCalls, pristine>>
    /\ UNCHANGED <<orchVars, dlVars, pageVars>>

\* the caller empties the batch of every record it was handed
MutateResult ==
    /\ result.op \in {"list", "get"}
    /\ result.records # <<>>
    /\ ~result.mutated
    /\ result' = [result EXCEPT
                     !.records = [i \in 1..Len(result.records) |->
                                     [result.records[i] EXCEPT !.batch = NoBatch]],
                     !.mutated = TRUE]
    /\ disk' = IF result.shared
               THEN [i \in 1..Len(disk) |->
                        IF \E j \in 1..Len(result.records) :
                               result.records[j].id = disk[i].id
                        THEN [disk[i] EXCEPT !.data.batch = NoBatch]
                        ELSE disk[i]]
               ELSE disk
    /\ UNCHANGED <<now, canOpen, db, opening, uncommitted, saveCalls,
                   pristine>>
    /\ UNCHANGED <<orchVars, dlVars, pageVars>>

\* a millisecond passes
Tick ==
    /\ now < MaxClock
    /\ now' = now + 1
    /\ result' = NoResult
    /\ UNCHANGED <<canOpen, db, opening, disk, uncommitted, saveCalls, pristine>>
    /\ UNCHANGED <<orchVars, dlVars, pageVars>>

\* the page is reloaded: the services are constructed anew, the calls that
\* were suspended and the transaction that had not completed are lost, the
\* committed items stay
Restart ==
    /\ db = "open" \/ opening # <<>> \/ pc # "init"
    /\ db' = "null"
    /\ opening' = <<>>
    /\ uncommitted' = <<>>
    /\ result' = NoResult
    /\ canOpen' \in BOOLEAN
    /\ pristine' = FALSE
    /\ pc' = "init"
    /\ batch' = NoBatch
    /\ selectedFiles' = <<>>
    /\ concurrencyLimit' = 0
    /\ loopIndex' = 0
    /\ inflight' = {}
    /\ encodeCalls' = <<>>
    /\ outcome' = <<>>
    /\ cancelCalls' = 0
    /\ atCancel' = <<>>
    /\ stats' = <<>>
    /\ emitted' = <<>>
    /\ UNCHANGED <<maxWorkers, now, disk, saveCalls>>
    /\ UNCHANGED <<dlVars, pageVars>>

\* the state after createBatchTask of one valid file, the database closed
InitStoreSpec ==
    /\ maxWorkers = DefaultWorkers
    /\ selectedFiles = <<PlainFile>>
    /\ pc = "created"
    /\ batch = createBatchTask(<<PlainFile>>)
    /\ concurrencyLimit = 0
    /\ loopIndex = 0
    /\ inflight = {}
    /\ encodeCalls = [i \in 1..1 |-> 0]
    /\ outcome = [i \in 1..1 |-> "none"]
    /\ cancelCalls = 0
    /\ atCancel = [i \in 1..1 |-> "none"]
    /\ stats = <<>>
    /\ emitted = <<>>
    /\ canOpen \in BOOLEAN
    /\ InitStore
    /\ InitDownload
    /\ InitPage

NextStore ==
    \/ SaveBatchToHistory
    \/ GetAllHistory
    \/ GetHistoryById
    \/ DeleteHistory
    \/ ClearAllHistory
    \/ GetStorageInfo
    \/ OpenSucceeds
    \/ OpenFails
    \/ Commit
    \/ MutateResult
    \/ Tick
    \/ Restart
    \/ Cancel

SpecStore == InitStoreSpec /\ [][NextStore]_vars

(***************************************************************************)
(* The delivery sink: DownloadService.downloadBatchSvg, called once on the *)
(* batch of the conversion service at any moment the caller holds it.      *)
(* downloadFile either triggers the download or throws.                    *)
(***************************************************************************)
\* how one downloadTaskSvg call can end: the download was triggered,
\* downloadFile threw, or the task was refused before downloadFile
DeliveryOutcomes == {"delivered", "failed"}

\* the filter of downloadBatchSvg without its condition
completedTasks_All(b) == [i \in 1..Len(b.tasks) |-> i]

\* batchTask.tasks.filter(task => task.status === COMPLETED && task.svgContent),
\* as task numbers
completedTasks(b) ==
    LET keep(i) == b.tasks[i].status = COMPLETED /\ b.tasks[i].svgContent # undefined
        F[n \in 0..Len(b.tasks)] ==
            IF n = 0 THEN <<>>
            ELSE IF keep(n) THEN Append(F[n - 1], n) ELSE F[n - 1]
    IN F[Len(b.tasks)]

\* downloadTaskSvg(task): refuses a task that is not completed or has no
\* svgContent, else hands the document to downloadFile
downloadTaskSvg(task, delivery) ==
    IF task.status # COMPLETED \/ task.svgContent = undefined
    THEN "refused"
    ELSE delivery

\* the call and its synchronous part: the filter, the two early exits, or
\* one timer per completed task at index * 200 ms
DownloadBatchSvg ==
    /\ pc \in {"created", "awaiting", "returned", "thrown"}
    /\ dlState = "idle"
    /\ dlBatch' = batch
    /\ dlCompleted' = completedTasks(batch)
    /\ IF Len(completedTasks(batch)) = 0
       THEN /\ dlState' = "rejected"
            /\ dlAttempts' = <<>>
       ELSE IF Len(completedTasks(batch)) = 1
       THEN \E delivery \in DeliveryOutcomes :
               LET i == completedTasks(batch)[1]
                   how == downloadTaskSvg(batch.tasks[i], delivery)
               IN /\ dlAttempts' = <<[task |-> i, outcome |-> how]>>
                  /\ dlState' = IF how = "delivered" THEN "resolved" ELSE "rejected"
       ELSE /\ dlState' = "timers"
            /\ dlAttempts' = <<>>
    /\ UNCHANGED <<orchVars, storeVars, pageVars>>

\* the next timer fires: its callback calls downloadTaskSvg and resolves its
\* promise whether or not the call threw; after the last one Promise.all
\* resolves
TimerFires ==
    /\ dlState = "timers"
    /\ Len(dlAttempts) < Len(dlCompleted)
    /\ \E delivery \in DeliveryOutcomes :
          LET i == dlCompleted[Len(dlAttempts) + 1]
              how == downloadTaskSvg(batch.tasks[i], delivery)
          IN dlAttempts' = Append(dlAttempts, [task |-> i, outcome |-> how])
    /\ dlState' = IF Len(dlAttempts) + 1 = Len(dlCompleted) THEN "resolved" ELSE "timers"
    /\ UNCHANGED <<dlBatch, dlCompleted>>
    /\ UNCHANGED <<orchVars, storeVars, pageVars>>

NextDownload ==
    \/ CreateBatch
    \/ ConvertBatch
    \/ EncoderFulfils
    \/ EncoderRejects
    \/ ResumeLoop
    \/ DownloadBatchSvg
    \/ TimerFires

SpecDownload == Init /\ [][NextDownload]_vars

(***************************************************************************)
(* The page: Home of src/src/app/page.tsx over the conversion service.     *)
(* A handler runs to its call of the service in one step and the call is   *)
(* the next step; nothing comes between the two, nor between the return    *)
(* of convertBatchTask and the continuation of the handler awaiting it.    *)
(* currentBatch is followed as the batch object it refers to.  The first   *)
(* conversion runs on the conversion service above; of a later conversion  *)
(* the page's part is followed: its batch is displayed by its callbacks    *)
(* and it holds isConverting until its handler ends.                       *)
(***************************************************************************)

\* validFiles of validateFiles in the upload form: the files of a supported
\* kind, not above the ceiling, that it hands to onFilesSelected
validFiles(files) ==
    SelectSeq(files, LAMBDA file : validateImageFile(file) /\ file.size <= maxSize)

\* convertBatchTask of the first conversion has settled and the handler
\* awaiting it has not gone on yet
ContinuationDue ==
    pagePc = "run" /\ pc \in {"returned", "thrown", "rejected"}

\* no handler is between its first statement and its call of the service
PageIdle ==
    handler = "none" /\ pc # "created" /\ ~ContinuationDue

\* handleFilesSelected(files), from the upload form, which is rendered while
\* currentBatch is null and disabled while isConverting
HandleFilesSelected ==
    /\ PageIdle
    /\ currentBatch = 0
    /\ ~isConverting
    /\ \E files \in FileLists : pageFiles' = validFiles(files)
    /\ currentBatch' = 0
    /\ UNCHANGED <<isConverting, conversions, handler, pagePc, later, saved>>
    /\ UNCHANGED <<orchVars, storeVars, dlVars>>

\* handleStartConversion up to createBatchTask; the button is rendered while
\* currentBatch is null and files are selected, disabled while isConverting
HandleStartConversion ==
    /\ PageIdle
    /\ currentBatch = 0
    /\ Len(pageFiles) > 0
    /\ ~isConverting
    /\ conversions < MaxConversions
    /\ conversions' = conversions + 1
    /\ isConverting' = TRUE
    /\ IF conversions = 0
       THEN /\ handler' = "start"
            /\ pagePc' = "run"
            /\ UNCHANGED <<currentBatch, later>>
       ELSE /\ currentBatch' = conversions + 1
            /\ later' = [later EXCEPT ![conversions + 1] = "processing"]
            /\ UNCHANGED <<handler, pagePc>>
    /\ UNCHANGED <<pageFiles, saved>>
    /\ UNCHANGED <<orchVars, storeVars, dlVars>>

\* createBatchTask(selectedFiles) of handleStartConversion
StartCreateBatch ==
    /\ handler = "start"
    /\ CreateBatch
    /\ selectedFiles' = pageFiles

\* convertFileToSvg resolves, no handler being under way
PageEncoderFulfils == PageIdle /\ EncoderFulfils

\* convertFileToSvg rejects, no handler being under way
PageEncoderRejects == PageIdle /\ EncoderRejects

\* convertBatchTask resumes after its await, no handler being under way
PageResumeLoop == PageIdle /\ ResumeLoop

\* handleCancelConversion(currentBatch) on the batch of the first
\* conversion, up to cancelBatchTask
HandleCancelConversion ==
    /\ PageIdle
    /\ currentBatch = 1
    /\ batch.status = PROCESSING
    /\ isConverting' = FALSE
    /\ handler' = "cancel"
    /\ UNCHANGED <<pageFiles, currentBatch, conversions, pagePc, later, saved>>
    /\ UNCHANGED <<orchVars, storeVars, dlVars>>

\* cancelBatchTask(batchTask) of handleCancelConversion
CancelCurrentBatch ==
    /\ handler = "cancel"
    /\ Cancel

\* handleStartConversion of the first conversion after its
\* await convertBatchTask: saveBatchToHistory is called, or the handler ends
AfterConvert ==
    /\ handler = "none"
    /\ ContinuationDue
    /\ IF /\ pc = "returned"
          /\ \/ batch.status = COMPLETED
             \/ \E i \in TaskIds(batch) : batch.tasks[i].status = COMPLETED
       THEN /\ saved' = Append(saved, batch)
            /\ pagePc' = "save"
            /\ UNCHANGED isConverting
       ELSE /\ pagePc' = "done"
            /\ isConverting' = FALSE
            /\ UNCHANGED saved
    /\ UNCHANGED <<pageFiles, currentBatch, conversions, handler, later>>
    /\ UNCHANGED <<orchVars, storeVars, dlVars>>

\* saveBatchToHistory settles either way: the finally block
SaveSettles ==
    /\ PageIdle
    /\ pagePc = "save"
    /\ pagePc' = "done"
    /\ isConverting' = FALSE
    /\ UNCHANGED <<pageFiles, currentBatch, conversions, handler, later, saved>>
    /\ UNCHANGED <<orchVars, storeVars, dlVars>>

\* handleRestart; the button is rendered while files are selected or a batch
\* is displayed, disabled while isConverting
HandleRestart ==
    /\ PageIdle
    /\ Len(pageFiles) > 0 \/ currentBatch # 0
    /\ ~isConverting
    /\ pageFiles' = <<>>
    /\ currentBatch' = 0
    /\ isConverting' = FALSE
    /\ UNCHANGED <<conversions, handler, pagePc, later, saved>>
    /\ UNCHANGED <<orchVars, storeVars, dlVars>>

\* a step of a later conversion's convertBatchTask: its callbacks display
\* its batch, which may stop processing
LaterProgress ==
    /\ PageIdle
    /\ \E n \in DOMAIN later :
         /\ later[n] \in {"processing", "settled"}
         /\ currentBatch' = n
         /\ \E to \in {later[n], "settled"} : later' = [later EXCEPT ![n] = to]
    /\ UNCHANGED <<pageFiles, isConverting, conversions, handler, pagePc, saved>>
    /\ UNCHANGED <<orchVars, storeVars, dlVars>>

\* a later conversion's convertBatchTask returns after its last
\* updateBatchProgress, and its handler runs to its finally block
LaterReturns ==
    /\ PageIdle
    /\ \E n \in DOMAIN later :
         /\ later[n] \in {"processing", "settled"}
         /\ currentBatch' = n
         /\ later' = [later EXCEPT ![n] = "returned"]
    /\ isConverting' = FALSE
    /\ UNCHANGED <<pageFiles, conversions, handler, pagePc, saved>>
    /\ UNCHANGED <<orchVars, storeVars, dlVars>>

\* handleCancelConversion(currentBatch) on the batch of a later conversion
HandleCancelLater ==
    /\ PageIdle
    /\ currentBatch \in DOMAIN later
    /\ later[currentBatch] = "processing"
    /\ later' = [later EXCEPT ![currentBatch] = "settled"]
    /\ isConverting' = FALSE
    /\ UNCHANGED <<pageFiles, currentBatch, conversions, handler, pagePc, saved>>
    /\ UNCHANGED <<orchVars, storeVars, dlVars>>

NextPage ==
    \/ HandleFilesSelected
    \/ HandleStartConversion
    \/ StartCreateBatch
    \/ ConvertBatch
    \/ PageEncoderFulfils
    \/ PageEncoderRejects
    \/ PageResumeLoop
    \/ HandleCancelConversion
    \/ CancelCurrentBatch
    \/ AfterConvert
    \/ SaveSettles
    \/ HandleRestart
    \/ LaterProgress
    \/ LaterReturns
    \/ HandleCancelLater

SpecPage == Init /\ [][NextPage]_vars

(***************************************************************************)
(* Vocabulary of the properties.                                           *)
(***************************************************************************)
NumTasks == Len(batch.tasks)

Returned == pc = "returned"

\* convertBatchTask has been called and has not thrown
Running == pc = "awaiting"

AllTerminal(b) == \A i \in TaskIds(b) : IsTerminal(b.tasks[i].status)

Processing(b) == {i \in TaskIds(b) : b.tasks[i].status = PROCESSING}

\* the batch in the current state and as every callback of the last step saw it
Observed == {batch} \cup {emitted[k].batch : k \in 1..Len(emitted)}

\* this step is a call of cancelBatchTask
CancelStep == cancelCalls' # cancelCalls

\* the step that led to the current state was a call of cancelBatchTask
LastStepWasCancel == cancelCalls >= 1 /\ emitted = <<>> /\ stats = <<>>

(***************************************************************************)
(* C1: when convertBatchTask has returned for a non-empty batch, every     *)
(* task is completed or failed and the batch's totalProgress is 100,       *)
(* whatever the encoder outcomes and the cancelBatchTask calls were.       *)
(***************************************************************************)
C1_ReturnedAllTerminal ==
    (Returned /\ NumTasks > 0) =>
        /\ AllTerminal(batch)
        /\ batch.totalProgress = 100

\* a run of three tasks returned after a cancel and a rejected encoder call
C1_Witness ==
    /\ Returned
    /\ NumTasks = 3
    /\ cancelCalls >= 1
    /\ \E i \in TaskIds(batch) : atCancel[i] = PROCESSING
    /\ \E i \in TaskIds(batch) : outcome[i] = "rejected"

(***************************************************************************)
(* C2: at the step in which convertBatchTask returns a non-empty batch,    *)
(* the batch status is completed iff every task is completed, and failed   *)
(* iff at least one task is failed.                                        *)
(***************************************************************************)
C2_AggregateAtReturn ==
    [][(~Returned /\ Returned' /\ Len(batch'.tasks) > 0) =>
          /\ batch'.status = COMPLETED <=>
                 \A i \in TaskIds(batch') : batch'.tasks[i].status = COMPLETED
          /\ batch'.status = FAILED <=>
                 \E i \in TaskIds(batch') : batch'.tasks[i].status = FAILED]_vars

\* a returned batch that is failed with one task failed and another completed
C2_Witness ==
    /\ Returned
    /\ emitted # <<>>
    /\ batch.status = FAILED
    /\ \E i \in TaskIds(batch) : batch.tasks[i].status = FAILED
    /\ \E i \in TaskIds(batch) : batch.tasks[i].status = COMPLETED

(***************************************************************************)
(* C3: a rejected encoder call never makes convertBatchTask throw; every   *)
(* task of the groups started so far, and at the return every task, has    *)
(* been handed to the encoder exactly once; the encoder's error is         *)
(* recorded on exactly the tasks whose call was rejected, which are        *)
(* failed.                                                                 *)
(***************************************************************************)
C3_FailureDoesNotAbort ==
    /\ pc # "thrown"
    /\ Running => \A t \in 1..sliceEnd(loopIndex, concurrencyLimit, NumTasks) :
                      encodeCalls[t] = 1
    /\ Returned => \A t \in TaskIds(batch) : encodeCalls[t] = 1
    /\ \A t \in TaskIds(batch) :
          /\ batch.tasks[t].error = EncodeErrorMessage <=> outcome[t] = "rejected"
          /\ outcome[t] = "rejected" => batch.tasks[t].status = FAILED

\* task 1 was rejected, and task 3 of a later group was encoded and completed
C3_Witness ==
    /\ Returned
    /\ NumTasks = 3
    /\ concurrencyLimit < 3
    /\ outcome[1] = "rejected"
    /\ outcome[2] = "fulfilled"
    /\ batch.tasks[2].status = COMPLETED
    /\ batch.tasks[3].status = COMPLETED

(***************************************************************************)
(* C4: from the call of convertBatchTask on, in the current state and in   *)
(* every state a callback sees, the number of tasks in status processing   *)
(* and the number of unsettled encoder calls are at most                   *)
(* concurrencyLimit = min(maxWorkers, number of tasks), which is at least  *)
(* 1 for a non-empty batch.                                                *)
(***************************************************************************)
C4_BoundedConcurrency ==
    (Running \/ Returned) =>
        /\ concurrencyLimit = Min(maxWorkers, NumTasks)
        /\ NumTasks > 0 => concurrencyLimit >= 1
        /\ Cardinality(inflight) <= concurrencyLimit
        /\ \A b \in Observed : Cardinality(Processing(b)) <= concurrencyLimit

\* a full group of two tasks is in flight while a third task waits
C4_Witness ==
    /\ Running
    /\ NumTasks = 3
    /\ concurrencyLimit = 2
    /\ Cardinality(Processing(batch)) = 2
    /\ Cardinality(inflight) = 2
    /\ batch.tasks[3].status = PENDING

(***************************************************************************)
(* C5: terminal task states are absorbing: no step of convertBatchTask or  *)
(* cancelBatchTask changes the status of a task that is completed or       *)
(* failed.                                                                 *)
(***************************************************************************)
C5_TerminalAbsorbing ==
    [][\A i \in TaskIds(batch) :
          IsTerminal(batch.tasks[i].status) =>
              batch'.tasks[i].status = batch.tasks[i].status]_vars

(***************************************************************************)
(* C6: after cancelBatchTask was called with convertBatchTask in flight    *)
(* and some task still pending or processing, once convertBatchTask has    *)
(* returned: a task that was completed at the cancel is completed with     *)
(* its result, a task that was pending or processing at the cancel is      *)
(* failed with the cancellation error and has no result, and the batch is  *)
(* failed.                                                                 *)
(***************************************************************************)
C6_CancelMidRun ==
    (Returned /\ \E i \in TaskIds(batch) : atCancel[i] \in {PENDING, PROCESSING}) =>
        /\ \A i \in TaskIds(batch) :
              /\ atCancel[i] = COMPLETED =>
                    /\ batch.tasks[i].status = COMPLETED
                    /\ batch.tasks[i].svgContent = SvgDocument
              /\ atCancel[i] \in {PENDING, PROCESSING} =>
                    /\ batch.tasks[i].status = FAILED
                    /\ batch.tasks[i].error = CancelMessage
                    /\ batch.tasks[i].svgContent = undefined
        /\ batch.status = FAILED

(***************************************************************************)
(* C7: cancelBatchTask is idempotent: in the state a call of it leaves, a  *)
(* further call would change no task or batch field, and a call that       *)
(* directly follows another call changes nothing.                          *)
(***************************************************************************)
C7_CancelIdempotent ==
    [][CancelStep =>
          /\ cancelBatchTask(batch') = batch'
          /\ LastStepWasCancel => batch' = batch]_vars

\* two calls in succession during a run, the first of which cancelled tasks
C7_Witness ==
    /\ LastStepWasCancel
    /\ cancelCalls = 2
    /\ Running
    /\ \E i \in TaskIds(batch) : atCancel[i] = FAILED /\ batch.tasks[i].error = CancelMessage
    /\ \E i \in TaskIds(batch) : atCancel[i] = COMPLETED

(***************************************************************************)
(* C8: a call of cancelBatchTask leaves every task that was pending or     *)
(* processing with status failed, the cancellation error and progress      *)
(* 100, and leaves the batch with a completion timestamp.                  *)
(***************************************************************************)
C8_CancelEffect ==
    [][CancelStep =>
          /\ \A i \in TaskIds(batch) :
                batch.tasks[i].status \in {PENDING, PROCESSING} =>
                    /\ batch'.tasks[i].status = FAILED
                    /\ batch'.tasks[i].error = CancelMessage
                    /\ batch'.tasks[i].progress = 100
          /\ batch'.completedAt # undefined]_vars

(***************************************************************************)
(* C9: a call of cancelBatchTask on a batch that is completed with every   *)
(* task completed changes no task or batch field.                          *)
(***************************************************************************)
C9_CancelAfterCompletion ==
    [][(/\ CancelStep
        /\ NumTasks > 0
        /\ batch.status = COMPLETED
        /\ \A i \in TaskIds(batch) : batch.tasks[i].status = COMPLETED) =>
          batch' = batch]_vars

(***************************************************************************)
(* C10: once the batch is created, in the current state and in every       *)
(* state a callback sees, a task's progress is 100 iff its status is       *)
(* completed or failed.                                                    *)
(***************************************************************************)
C10_ProgressIffTerminal ==
    \A b \in Observed : \A i \in TaskIds(b) :
        b.tasks[i].progress = 100 <=> IsTerminal(b.tasks[i].status)

(***************************************************************************)
(* C11: once the batch is created, in the current state and in every       *)
(* state a callback sees, a task has svgContent iff its status is          *)
(* completed, and has an error iff its status is failed.                   *)
(***************************************************************************)
C11_ResultAndErrorMatchStatus ==
    \A b \in Observed : \A i \in TaskIds(b) :
        /\ b.tasks[i].svgContent # undefined <=> b.tasks[i].status = COMPLETED
        /\ b.tasks[i].error # undefined <=> b.tasks[i].status = FAILED

(***************************************************************************)
(* C12: in every state of a non-empty batch between steps, also right      *)
(* after cancelBatchTask, totalProgress is                                 *)
(* round(100 * number of completed or failed tasks / number of tasks).     *)
(***************************************************************************)
C12_TotalProgressFormula ==
    NumTasks > 0 =>
        batch.totalProgress =
            RoundRatio(Cardinality({i \in TaskIds(batch) :
                                      IsTerminal(batch.tasks[i].status)}),
                       NumTasks)

(***************************************************************************)
(* C13: from the call of convertBatchTask on a non-empty batch on, the      *)
(* batch status is completed only if every task is completed, failed only  *)
(* if every task is terminal and some task is failed, and processing       *)
(* whenever some task is pending or processing.                            *)
(***************************************************************************)
C13_StatusConsistentWithTasks ==
    ((Running \/ Returned) /\ NumTasks > 0) =>
        /\ batch.status = COMPLETED =>
              \A i \in TaskIds(batch) : batch.tasks[i].status = COMPLETED
        /\ batch.status = FAILED =>
              /\ AllTerminal(batch)
              /\ \E i \in TaskIds(batch) : batch.tasks[i].status = FAILED
        /\ ~AllTerminal(batch) => batch.status = PROCESSING

\* the number of times updateBatchProgress assigned completedAt in the last
\* step: once for each onBatchProgress call that saw every task terminal
CompletedAtWrites(log) ==
    Cardinality({k \in 1..Len(log) :
                   log[k].cb = "onBatchProgress" /\ AllTerminal(log[k].batch)})

(***************************************************************************)
(* C14: once the status of a non-empty batch is completed or failed no     *)
(* step changes it, and completedAt is assigned once only, in the step     *)
(* that makes the status terminal.                                         *)
(***************************************************************************)
C14_BatchTerminalOnce ==
    [][NumTasks > 0 =>
          /\ IsTerminal(batch.status) => batch'.status = batch.status
          /\ CompletedAtWrites(emitted') <=
                 (IF ~IsTerminal(batch.status) /\ IsTerminal(batch'.status)
                  THEN 1 ELSE 0)]_vars

C16_NoOversizeTask ==
    \A i \in TaskIds(batch) : batch.tasks[i].fileSize <= maxSize

(***************************************************************************)
(* C17: convertBatchTask never returns for a batch with zero tasks (it     *)
(* aborts with an error instead).                                          *)
(***************************************************************************)
C17_EmptyBatchNotReturned ==
    NumTasks = 0 => ~Returned

(***************************************************************************)
(* C18: a call of convertBatchTask on a non-empty batch whose tasks are    *)
(* all completed or failed hands no task to the encoder and changes no     *)
(* task.                                                                   *)
(***************************************************************************)
C18_RunOnTerminalBatch ==
    [][(pc = "created" /\ pc' # pc /\ NumTasks > 0 /\ AllTerminal(batch)) =>
          /\ encodeCalls' = encodeCalls
          /\ batch'.tasks = batch.tasks]_vars

(***************************************************************************)
(* C19: getBatchStatistics returns total = number of tasks, the exact      *)
(* numbers of completed, failed, processing and pending tasks, which sum   *)
(* to total, and successRate = 100 * completed / total rounded to the      *)
(* nearest integer (0 for no tasks; 67 for 2 completed of 3); the call     *)
(* changes nothing else.                                                   *)
(***************************************************************************)
C19_Statistics ==
    [][stats' # <<>> =>
          LET s == stats'[1]
              count(status) ==
                  Cardinality({i \in TaskIds(batch) : batch.tasks[i].status = status})
          IN /\ s.total = Len(batch.tasks)
             /\ s.completed = count(COMPLETED)
             /\ s.failed = count(FAILED)
             /\ s.processing = count(PROCESSING)
             /\ s.pending = count(PENDING)
             /\ s.completed + s.failed + s.processing + s.pending = s.total
             /\ s.total = 0 => s.successRate = 0
             /\ s.total > 0 =>
                   /\ 2 * s.successRate * s.total <= 200 * s.completed + s.total
                   /\ 200 * s.completed + s.total < 2 * (s.successRate + 1) * s.total
             /\ (s.total = 3 /\ s.completed = 2 /\ s.failed = 1) => s.successRate = 67
             /\ UNCHANGED <<maxWorkers, selectedFiles, pc, batch, concurrencyLimit,
                            loopIndex, inflight, encodeCalls, outcome, cancelCalls,
                            atCancel>>]_vars

\* the statistics of a returned batch of three tasks with exactly one failed
C19_Witness ==
    /\ stats # <<>>
    /\ Returned
    /\ stats[1].total = 3
    /\ stats[1].completed = 2
    /\ stats[1].failed = 1
    /\ stats[1].successRate = 67

\* the onTaskProgress calls of a step for task i, in order
TaskEvents(log, i) ==
    SelectSeq(log, LAMBDA e : e.cb = "onTaskProgress" /\ e.task = i)

\* every task whose status this step changes was reported by onTaskProgress
\* in its new status, and not changed after the last report
StatusChangesReported ==
    \A i \in TaskIds(batch) \cap TaskIds(batch') :
        batch'.tasks[i].status # batch.tasks[i].status =>
            LET events == TaskEvents(emitted', i)
            IN /\ events # <<>>
               /\ events[Len(events)].batch.tasks[i].status = batch'.tasks[i].status

GroupStart(i) == ((i - 1) \div concurrencyLimit) * concurrencyLimit

\* task i has been handed to convertSingleTask
Dispatched(i) == encodeCalls[i] > 0

\* C31: groups are processed one after the other: in the current state and
\* in every state a callback sees, when a task has been set to processing
\* every task of the groups before its own is completed or failed, and the
\* encoder call of none of them is still pending.
C31_GroupsSequential ==
    \A i \in TaskIds(batch) :
        /\ Dispatched(i) => \A j \in 1..GroupStart(i) : j \notin inflight
        /\ \A b \in Observed :
               b.tasks[i].status = PROCESSING =>
                   \A j \in 1..GroupStart(i) : IsTerminal(b.tasks[j].status)

\* a task of the second group is processing, and the tasks of the first
\* group are completed or failed
C31_Witness ==
    /\ concurrencyLimit = 2
    /\ NumTasks = 3
    /\ batch.tasks[3].status = PROCESSING
    /\ batch.tasks[1].status = COMPLETED
    /\ batch.tasks[2].status = FAILED
    /\ cancelCalls = 0

\* C32: in a run without cancel, a task whose encoder call succeeded is
\* completed with the encoder's document, progress 100 and a completedAt; a
\* task whose encoder call failed is failed with an error, progress 100 and
\* a completedAt.
C32_SettledTaskFields ==
    cancelCalls = 0 =>
        \A i \in TaskIds(batch) :
            /\ outcome[i] = "fulfilled" =>
                   /\ batch.tasks[i].status = COMPLETED
                   /\ batch.tasks[i].svgContent = SvgDocument
                   /\ batch.tasks[i].progress = 100
                   /\ batch.tasks[i].completedAt # undefined
            /\ outcome[i] = "rejected" =>
                   /\ batch.tasks[i].status = FAILED
                   /\ batch.tasks[i].error # undefined
                   /\ batch.tasks[i].progress = 100
                   /\ batch.tasks[i].completedAt # undefined

\* the aggregate of batch b is the one its tasks give
AggregateOf(b) ==
    LET done == Cardinality({i \in TaskIds(b) : IsTerminal(b.tasks[i].status)})
    IN /\ b.totalProgress = RoundPercent(done, Len(b.tasks))
       /\ done = Len(b.tasks) =>
              b.status = (IF \E i \in TaskIds(b) : b.tasks[i].status = FAILED
                          THEN FAILED ELSE COMPLETED)

\* C33: every onTaskProgress call of a step is followed at once by an
\* onBatchProgress call that sees the same tasks and carries the aggregate
\* computed from them.
C33_TaskUpdateThenAggregate ==
    \A k \in 1..Len(emitted) :
        emitted[k].cb = "onTaskProgress" =>
            /\ k < Len(emitted)
            /\ emitted[k + 1].cb = "onBatchProgress"
            /\ emitted[k + 1].batch.tasks = emitted[k].batch.tasks
            /\ AggregateOf(emitted[k + 1].batch)

\* of two tasks one has just settled: its onTaskProgress call is followed
\* by an onBatchProgress call that carries 50
C33_Witness ==
    /\ NumTasks = 2
    /\ \E k \in 1..Len(emitted) - 1 :
           /\ emitted[k].cb = "onTaskProgress"
           /\ IsTerminal(emitted[k].batch.tasks[emitted[k].task].status)
           /\ emitted[k + 1].cb = "onBatchProgress"
           /\ emitted[k + 1].batch.totalProgress = 50

\* the batch as it is before a step, as each callback of the step sees it,
\* and as it is after the step, in that order
StepObservations ==
    <<batch>> \o [k \in 1..Len(emitted') |-> emitted'[k].batch] \o <<batch'>>

\* C34: a task's progress is within 0..100, and from one observation of the
\* batch to the next it does not decrease while the task is processing.
C34_ProgressMonotone ==
    [][/\ \A i \in TaskIds(batch') :
             batch'.tasks[i].progress \in 0..100
       /\ Len(batch'.tasks) = Len(batch.tasks) =>
             \A n \in 1..Len(StepObservations) - 1 : \A i \in TaskIds(batch) :
                 LET before == StepObservations[n].tasks[i]
                     after == StepObservations[n + 1].tasks[i]
                 IN (before.status = PROCESSING /\ after.status = PROCESSING)
                        => before.progress <= after.progress]_vars

\* a callback has seen a task processing with progress 80
C34_Witness ==
    \E k \in 1..Len(emitted) : \E i \in TaskIds(batch) :
        /\ emitted[k].batch.tasks[i].status = PROCESSING
        /\ emitted[k].batch.tasks[i].progress = 80

\* C35: no task is handed to the encoder twice, and when a run without
\* cancel has returned every task has been handed to it once.
C35_EachTaskEncodedOnce ==
    /\ \A i \in TaskIds(batch) : encodeCalls[i] <= 1
    /\ (Returned /\ cancelCalls = 0) =>
           \A i \in TaskIds(batch) : encodeCalls[i] = 1

\* a run of three tasks in groups of two has returned without a cancel
C35_Witness ==
    /\ Returned
    /\ cancelCalls = 0
    /\ NumTasks = 3
    /\ concurrencyLimit = 2
    /\ \A i \in TaskIds(batch) : encodeCalls[i] = 1

\* C36: in the current state and in every state a callback sees,
\* totalProgress is an integer from 0 to 100, also for a batch of no tasks.
C36_TotalProgressInRange ==
    \A b \in Observed : b.totalProgress \in 0..100

(***************************************************************************)
(* The page.                                                               *)
(***************************************************************************)

\* C37: in the page, the batch displayed as currentBatch is null or the
\* batch of the most recently started conversion; in particular, once the
\* user has cancelled a running batch, restarted and started a new
\* conversion, no callback of the earlier run, still in flight, displays the
\* earlier batch again.
C37_CurrentBatchIsLatest ==
    currentBatch \in {0, conversions}

\* the tasks cancelBatchTask marked as cancelled while the run was in flight
CancelledTasks == {i \in TaskIds(batch) : atCancel[i] \in {PENDING, PROCESSING}}

\* C38: the page saves the batch of a conversion to history at most once,
\* only after convertBatchTask has returned and only with at least one task
\* completed, and a batch the user cancelled is never saved with a task
\* recorded as completed that the cancel had marked as cancelled.
C38_SavedOnceNoCancelledCompleted ==
    /\ Len(saved) <= 1
    /\ \A k \in 1..Len(saved) :
         /\ pc = "returned"
         /\ \E i \in TaskIds(saved[k]) : saved[k].tasks[i].status = COMPLETED
         /\ \A i \in CancelledTasks : saved[k].tasks[i].status # COMPLETED

(***************************************************************************)
(* Vocabulary of the history store properties.                             *)
(***************************************************************************)
\* the storage call op resolved in the last storage step
Settled(op) == result.op = op /\ result.status = "resolved" /\ ~result.mutated

StoredIds == {disk[i].id : i \in 1..Len(disk)}

\* the committed item that has the given id
StoredItem(id) == CHOOSE x \in Items(disk) : x.id = id

\* C21: the record getHistoryById returns for a saved id holds the batch as
\* it was when saveBatchToHistory was called for that id, whatever cancel
\* did to the live batch after the call.
C21_GetReturnsBatchAtSave ==
    (Settled("get") /\ result.records # <<>>)
        => result.records[1].batch = StoredItem(result.arg[1]).atCall

\* C22: the records getAllHistory returns are in non-increasing order of
\* their savedAt.
C22_ListOrderedBySavedAt ==
    Settled("list") =>
        \A i \in 1..Len(result.records) - 1 :
            result.records[i].savedAt >= result.records[i + 1].savedAt

\* no saveBatchToHistory call is suspended in init
NoSavePending == \A i \in 1..Len(opening) : opening[i].op # "save"

\* C23: on a store that was empty and has seen no delete, clear or restart,
\* after N saves have resolved getAllHistory returns exactly N records, and
\* no record twice.
C23_ListHasEverySave ==
    (Settled("list") /\ pristine /\ NoSavePending) =>
        /\ Len(result.records) = saveCalls
        /\ \A i, j \in 1..Len(result.records) :
               result.records[i].id = result.records[j].id => i = j

\* where getAllHistory returned the record that has the given id
ListPosition(id) ==
    CHOOSE i \in 1..Len(result.records) : result.records[i].id = id

\* C24: of two stored records that have the same ordering timestamp,
\* getAllHistory returns the one that was put later before the other.
C24_TiesLaterFirst ==
    Settled("list") =>
        \A i, j \in 1..Len(disk) :
            (i < j /\ disk[i].timestamp = disk[j].timestamp)
                => ListPosition(disk[j].id) < ListPosition(disk[i].id)

\* C25: deleteHistory of an id that is not stored resolves and leaves the
\* stored records as they were; deleting an id twice leaves the store as
\* deleting it once does.
C25_DeleteAbsentIsNoOp ==
    /\ (result.op = "delete" /\ canOpen) => result.status = "resolved"
    /\ (Settled("delete") /\ result.arg[1] \notin StoredIds) => Contents = disk
    /\ \A id \in KnownIds :
           delete(delete(Contents, id), id) = delete(Contents, id)

\* deleteHistory of an id that is not stored has resolved on a store that
\* holds a record
C25_Witness ==
    /\ Settled("delete")
    /\ result.arg[1] \notin StoredIds
    /\ disk # <<>>
    /\ Contents = disk

\* C26: getStorageInfo returns as count the number of records stored (none
\* once clearAllHistory has resolved) and as estimatedSize count times
\* 50 KiB.
C26_StorageInfo ==
    /\ Settled("info") =>
           /\ result.count = Cardinality(StoredIds)
           /\ result.estimatedSize = result.count * 50 * 1024
    /\ Settled("clear") => Contents = <<>>

\* getStorageInfo has resolved on a store of two records
C26_Witness ==
    /\ Settled("info")
    /\ result.count = 2
    /\ result.estimatedSize = 102400

\* C27: while the database cannot be opened no storage call resolves, a
\* call that settles is rejected with a storage error, and no write to the
\* stored records is under way.
C27_OpenFailureFailsEveryCall ==
    /\ ~canOpen =>
           /\ result.status # "resolved"
           /\ db = "null"
           /\ uncommitted = <<>>
    /\ result.status = "rejected" => (~canOpen /\ result.error = STORAGE_ERROR)

\* the database cannot be opened, and the delete of a stored record has been
\* rejected: the record is still stored
C27_Witness ==
    /\ ~canOpen
    /\ result.op = "delete"
    /\ result.status = "rejected"
    /\ result.error = STORAGE_ERROR
    /\ result.arg[1] \in StoredIds

\* a step of Restart taken while the database is open
RestartStep == db = "open" /\ db' = "null"

\* a save has resolved and its transaction has not completed yet
SaveResolvedNotCommitted == uncommitted # <<>> /\ uncommitted[1].kind = "put"

\* C28: a record whose save has resolved is still stored after a restart.
C28_ResolvedSaveSurvivesRestart ==
    [][(SaveResolvedNotCommitted /\ RestartStep)
          => \E i \in 1..Len(disk') : disk'[i].id = uncommitted[1].item[1].id]_vars

\* the caller has just mutated the records it was handed
MutateStep == result'.mutated /\ ~result.mutated

\* C29: mutating the records getAllHistory or getHistoryById returned does
\* not change what is stored, hence not what a later call returns.
C29_ReturnedRecordsAreCopies ==
    [][MutateStep => (disk' = disk /\ uncommitted' = uncommitted)]_vars

\* the caller has emptied the batch of a record it was handed, and the
\* stored record of that id still has its batch
C29_Witness ==
    /\ result.mutated
    /\ result.records[1].batch = NoBatch
    /\ result.records[1].id \in StoredIds
    /\ StoredItem(result.records[1].id).data.batch # NoBatch

(***************************************************************************)
(* Vocabulary of the delivery properties.                                  *)
(***************************************************************************)
\* the tasks that were completed, with a document, when downloadBatchSvg was
\* called
CompletedAtCall ==
    {i \in TaskIds(dlBatch) :
        dlBatch.tasks[i].status = COMPLETED /\ dlBatch.tasks[i].svgContent # undefined}

AttemptedTasks == {dlAttempts[k].task : k \in 1..Len(dlAttempts)}

DownloadSettled == dlState \in {"resolved", "rejected"}

\* C30: downloadBatchSvg hands each task that was completed to downloadFile
\* exactly once and in task order, whatever the earlier deliveries did; the
\* call settles with the last attempt, and it is rejected only if every
\* attempt failed.
C30_DeliverMany ==
    /\ \A k \in 1..Len(dlAttempts) :
           /\ dlAttempts[k].task \in CompletedAtCall
           /\ dlAttempts[k].outcome \in DeliveryOutcomes
    /\ \A k, l \in 1..Len(dlAttempts) :
           k < l => dlAttempts[k].task < dlAttempts[l].task
    /\ DownloadSettled => AttemptedTasks = CompletedAtCall
    /\ dlState = "timers" => AttemptedTasks # CompletedAtCall
    /\ dlState = "rejected" =>
           \A k \in 1..Len(dlAttempts) : dlAttempts[k].outcome = "failed"

\* of three tasks the first and the third were completed; the delivery of
\* the first failed, the third was delivered after it and the call resolved
C30_Witness ==
    /\ dlState = "resolved"
    /\ Len(dlBatch.tasks) = 3
    /\ dlAttempts = <<[task |-> 1, outcome |-> "failed"],
                      [task |-> 3, outcome |-> "delivered"]>>

TypeOK ==
    /\ pc \in {"init", "created", "rejected", "awaiting", "returned", "thrown"}
    /\ batch.status \in ConversionStatus
    /\ \A i \in TaskIds(batch) : batch.tasks[i].status \in ConversionStatus
    /\ inflight \subseteq TaskIds(batch)
    /\ now \in 0..MaxClock
    /\ canOpen \in BOOLEAN
    /\ db \in {"null", "open"}
    /\ Len(opening) <= MaxOpening
    /\ Len(uncommitted) <= 1
    /\ saveCalls \in 0..MaxSaves
    /\ result.status \in {"none", "resolved", "rejected"}
    /\ dlState \in {"idle", "timers", "resolved", "rejected"}
    /\ Len(dlAttempts) <= Len(dlCompleted)
    /\ Len(pageFiles) <= MaxTasks
    /\ currentBatch \in 0..MaxConversions
    /\ isConverting \in BOOLEAN
    /\ conversions \in 0..MaxConversions
    /\ handler \in {"none", "start", "cancel"}
    /\ pagePc \in {"idle", "run", "save", "done"}
    /\ \A n \in DOMAIN later : later[n] \in {"none", "processing", "settled", "returned"}
    /\ Len(saved) <= 1
====
